---- MODULE Spec2Model ----
(***************************************************************************)
(* musicCLI: the playlist command (reconciliation of a playlist against    *)
(* the metadata index, cli.py) and the batch download through the YouTube  *)
(* fallback (youtube.py).                                                  *)
(*                                                                         *)
(* Spec      : one run of `musiccli playlist <url> [--download ...]`.      *)
(* SpecBatch : one call of youtube.download_tracks_batch, made either with *)
(*             the keyword arguments of cli.py:771-776 (the function's own *)
(*             signature) or with those of cli.py:570-578.                 *)
(* SpecCache : direct calls of youtube.search_youtube by one process after *)
(*             the other, over one durable cache file.                     *)
(* SpecFill  : a process that searches new queries while the cache file    *)
(*             holds up to its 1000 entries.                               *)
(* SpecRank  : a process that searches while the provider hands back one   *)
(*             fixed list of entries.                                      *)
(*                                                                         *)
(* A track is abstracted to its id (1..NumIds); NoId is a playlist item    *)
(* without id (a local file).  The "artist - title" text of a track, from  *)
(* which both the search query and the output file name are derived, is    *)
(* NameOf(id); two ids may share it.                                       *)
(***************************************************************************)
EXTENDS Integers, Sequences, FiniteSets, TLC

\* ---------------------------------------------------------------- bounds
MaxTracks == 3
NumIds == 3
MaxRetries == 2
MaxWorkers == 2
MaxEntries == 2
MaxRestarts == 1
MaxFresh == 2

NoId == 0
Ids == 1..NumIds
Names == 1..((NumIds + 1) \div 2)

SeqsUpTo(S, n) == UNION {[1..k -> S] : k \in 0..n}
Range(s) == {s[k] : k \in 1..Len(s)}

VARIABLES
    pc,               \* position of the playlist command
    tracks,           \* playlist_data["tracks"], as the sequence of ids
    lookup_mode,      \* which metadata index answered get_tracks_by_ids, and how
    db_tracks,        \* ids in the mapping returned by get_tracks_by_ids
    file_infos,       \* id -> status of its track_files row ("none": no row)
    pos,              \* index of the classification loop over tracks
    results,          \* the classified tracks, in order
    stats,            \* the summary counters
    bpc,              \* position of download_tracks_batch
    btracks,          \* its `tracks` argument, as the sequence of ids
    kwargs,           \* the keyword arguments of the call
    policy,           \* values passed for skip_existing/max_retries/max_workers
    i,                \* loop index of download_tracks_batch (1-based)
    state,            \* per task: last status reported for it
    attempts,         \* per task: number of times it entered 'searching'
    searches,         \* per task: provider searches issued
    fetches,          \* per task: provider fetches issued
    events,           \* progress_callback calls, in order: <<task, status>>
    search_results,   \* what search_youtube last handed back, and for which task
    counts,           \* downloaded / failed / skipped of cli.progress_callback
    download_results, \* the returned dict: id -> "absent" | "None" | "path"
    search_cache,     \* youtube._search_cache: its entries, in insertion order
    cache_file,       \* the durable cache file
    last_call,        \* the last direct call of search_youtube and its result
    restarts,         \* number of process restarts so far
    provider_answer,  \* the entries the provider hands back, where it is fixed
    ydl_module,       \* youtube._ydl_module: "unset" | "loaded"
    files,            \* names of the files in the output directory
    cause             \* exception that left download_tracks_batch, or "none"

cmdVars == <<pc, tracks, lookup_mode, db_tracks, file_infos, pos, results, stats>>
callVars == <<btracks, kwargs, policy, files>>
taskVars == <<i, state, attempts, searches, fetches, events, search_results,
             counts, download_results>>
provVars == <<search_cache, cache_file, ydl_module>>
callObs == <<last_call, restarts, provider_answer>>
vars == <<pc, tracks, lookup_mode, db_tracks, file_infos, pos, results, stats,
          bpc, btracks, kwargs, policy, i, state, attempts, searches, fetches,
          events, search_results, counts, download_results, search_cache,
          cache_file,
          ydl_module, files, cause, last_call, restarts,
          provider_answer>>

\* ------------------------------------------------------- playlist source
\* spotify.py keeps a playlist item only when it has an id.
KeepTrackAll(item) == TRUE
KeepTrack(item) == item # NoId

fetch_playlist(items) == SelectSeq(items, KeepTrack)

\* cli.py:422  track_ids = [t["id"] for t in tracks if t.get("id")]
HasId(t) == t # NoId
track_ids == SelectSeq(tracks, HasId)

\* ------------------------------------------------------- metadata lookup
\* "ok": the local or the remote index answered
DbModes == {"ok", "local_error", "remote_down", "no_libsql"}
FileModes == {"ok", "unconfigured", "error"}
FileStatuses == {"success", "other"}

\* db.get_tracks_by_ids: an sqlite error of the local index propagates; every
\* failure of the remote index is answered by the empty mapping.
LookupRaises(mode) == mode = "local_error"
LookupAnswers(mode, asked) ==
    IF mode \in {"remote_down", "no_libsql"} THEN {{}} ELSE SUBSET asked

NoFileInfos == [t \in Ids |-> "none"]
FileInfoAnswers(fmode, asked) ==
    IF fmode = "unconfigured" THEN {NoFileInfos}
    ELSE {f \in [Ids -> FileStatuses \cup {"none"}] :
             \A t \in Ids \ asked : f[t] = "none"}

\* ------------------------------------------------------- classification
ClassifyRepeatAvailable(track_id, db, fi) ==
    IF \E k \in 1..Len(results) : results[k].id = track_id THEN "available"
    ELSE IF track_id \in db
    THEN IF fi[track_id] # "none"
         THEN IF fi[track_id] = "success" THEN "available" ELSE "missing"
         ELSE "available"
    ELSE "not_in_db"

ClassifyPessimistic(track_id, db, fi) ==
    IF track_id \in db
    THEN IF fi[track_id] = "success" THEN "available" ELSE "missing"
    ELSE "not_in_db"

Classify(track_id, db, fi) ==
    IF track_id \in db
    THEN IF fi[track_id] # "none"
         THEN IF fi[track_id] = "success" THEN "available" ELSE "missing"
         ELSE "available"
    ELSE "not_in_db"

StatsAfterLossy(st, status) ==
    IF status = "not_in_db" THEN st ELSE [st EXCEPT ![status] = @ + 1]

StatsAfter(st, status) == [st EXCEPT ![status] = @ + 1]

NoStats == [total |-> 0, available |-> 0, missing |-> 0, not_in_db |-> 0]

NeedsDownloadAll(r) == TRUE
NeedsDownload(r) == r.status \in {"missing", "not_in_db"}
IdOf(r) == r.id
MapIds(rs) == [k \in 1..Len(rs) |-> IdOf(rs[k])]
tracks_to_download == MapIds(SelectSeq(results, NeedsDownload))

\* ------------------------------------------------ download_tracks_batch
Params == {"tracks", "output_dir", "format", "quality", "progress_callback"}
AlbumKwargs == {"tracks", "output_dir", "format", "progress_callback"}
PlaylistKwargs == AlbumKwargs \cup {"skip_existing", "max_retries", "max_workers"}

\* A Python call binds only when every keyword names a parameter.
Binds(kw) == kw \subseteq Params

NoPolicy == [skip_existing |-> FALSE, max_retries |-> 0, max_workers |-> 0]
\* --retries when the option is not given
DefaultRetries == 3
\* --skip-existing/--no-skip, --retries, --workers: the least and the largest
Policies == [skip_existing : BOOLEAN, max_retries : {1, MaxRetries},
             max_workers : {1, MaxWorkers}]
\* the output directory is empty, or holds a file of every name
OutputDirs == {{}, Names}

\* "artist - title" of a track: source of the query and of the file name.
NameOf(id) == (id + 1) \div 2

\* build_search_query: the query text of a track.  A query is its text up
\* to letter case and whether it holds an upper-case letter; the odd ids
\* stand for the tracks written with capitals.
build_search_query(id) == [text |-> NameOf(id), upper |-> id % 2 = 1]

\* _cache_key: md5 (taken as injective) of the lower-cased query
Lower(query) == [query EXCEPT !.upper = FALSE]
CacheKeyExact(query) == query
CacheKey(query) == Lower(query)
QueryKey(id) == CacheKey(build_search_query(id))
FileName(id) == NameOf(id)

NoCounts == [downloaded |-> 0, failed |-> 0, skipped |-> 0]

\* cli.py progress_callback
CountAfter(c, status) ==
    IF status = "completed" THEN [c EXCEPT !.downloaded = @ + 1]
    ELSE IF status = "skipped" THEN [c EXCEPT !.skipped = @ + 1]
    ELSE IF status \in {"failed", "not_found"} THEN [c EXCEPT !.failed = @ + 1]
    ELSE c

\* search_youtube(limit=1): number of candidates handed back
SearchOutcomes == {"hit", "empty", "error"}
CandidatesAlways(outcome) == 1
Candidates(outcome) == IF outcome = "hit" THEN 1 ELSE 0

\* download_track: what its try/except lets through to the caller
FetchOutcomes == {"ok", "no_info", "no_file", "error"}
FetchEscapesOnError(outcome) == outcome = "error"
FetchEscapes(outcome) == FALSE
FilePathAlways(outcome) == "path"
FilePath(outcome) == IF outcome = "ok" THEN "path" ELSE "None"

\* A provider entry is None or a video, known here by its duration.
NoEntry == 0
Videos == 1..3
Duration(e) == 450 * e
MaxDuration == 900
ExtraAsked == 5
ExtraKept == 3
GoodEntry == 1

\* what ytsearch{limit + 5} can hand back: at most limit + 5 entries, no
\* video twice
ProviderAnswers(limit) ==
    {raw \in SeqsUpTo({NoEntry} \cup Videos,
                      IF MaxEntries < limit + ExtraAsked THEN MaxEntries
                      ELSE limit + ExtraAsked) :
        \A m, n \in 1..Len(raw) :
            m # n /\ raw[m] = raw[n] => raw[m] = NoEntry}

\* what the provider answers where its answer is fixed for the run
RankAnswers ==
    {raw \in SeqsUpTo({NoEntry} \cup Videos, MaxEntries + 1) :
        \A m, n \in 1..Len(raw) :
            m # n /\ raw[m] = raw[n] => raw[m] = NoEntry}

\* search_youtube:150-170: the loop that filters the provider's entries
UsableUnfiltered(raw, limit, acc) == raw
RECURSIVE Usable(_, _, _)
Usable(raw, limit, acc) ==
    IF raw = <<>> THEN acc
    ELSE IF Head(raw) = NoEntry \/ Duration(Head(raw)) > MaxDuration
         THEN Usable(Tail(raw), limit, acc)
         ELSE IF Len(acc) + 1 >= limit + ExtraKept
              THEN Append(acc, Head(raw))
              ELSE Usable(Tail(raw), limit, Append(acc, Head(raw)))

\* results[:limit]
Take(s, n) == SubSeq(s, 1, IF n < Len(s) THEN n ELSE Len(s))

\* search_youtube:173: only a non-empty result list is cached
ShouldCacheAlways(found) == TRUE
ShouldCache(found) == found # <<>>

\* the dict _search_cache: a sequence of entries in insertion order
HasKey(cache, key) == \E n \in 1..Len(cache) : cache[n].key = key
Get(cache, key) ==
    cache[CHOOSE n \in 1..Len(cache) : cache[n].key = key].cands
PutDropped(cache, key, cands) == cache
Put(cache, key, cands) ==
    IF HasKey(cache, key)
    THEN [n \in 1..Len(cache) |->
            IF cache[n].key = key THEN [key |-> key, cands |-> cands]
            ELSE cache[n]]
    ELSE Append(cache, [key |-> key, cands |-> cands])

\* _load_cache
GoodFile(entries) == [ok |-> TRUE, entries |-> entries]
CorruptFile == [ok |-> FALSE, entries |-> <<>>]
LoadRaisesOnCorrupt(mem, file) == mem = <<>> /\ ~file.ok
LoadRaises(mem, file) == FALSE
LoadCacheNoFile(mem, file) == mem
LoadCache(mem, file) ==
    IF mem # <<>> THEN mem ELSE IF file.ok THEN file.entries ELSE <<>>

\* _save_cache: the last 1000 entries go to the file; a failure is
\* swallowed, before the file is opened ("unopened": the file is as it
\* was) or while it is written ("torn": the file no longer parses).
CacheCap == 1000
LastN(s, n) == IF Len(s) <= n THEN s ELSE SubSeq(s, Len(s) - n + 1, Len(s))
SaveOutcomes == {"written", "unopened", "torn"}
SaveCacheAll(mem, file, how) ==
    IF how = "written" THEN GoodFile(mem)
    ELSE IF how = "unopened" THEN file ELSE CorruptFile
SaveCache(mem, file, how) ==
    IF how = "written" THEN GoodFile(LastN(mem, CacheCap))
    ELSE IF how = "unopened" THEN file ELSE CorruptFile

\* the cache file as earlier runs left it: entries of the given query texts
RECURSIVE Preload(_)
Preload(texts) ==
    IF texts = {} THEN <<>>
    ELSE LET t == CHOOSE x \in texts : \A y \in texts : x >= y
         IN  Append(Preload(texts \ {t}),
                    [key |-> [text |-> t, upper |-> FALSE],
                     cands |-> <<GoodEntry>>])

NoCall == [query |-> [text |-> 0, upper |-> FALSE], limit |-> 0,
           use_cache |-> TRUE, load |-> "none", outcome |-> "none",
           returned |-> <<>>, provider |-> FALSE, saved |-> "none"]

Terminal == {"completed", "skipped", "failed", "not_found"}

Blank(n, v) == [k \in 1..n |-> v]
NoResults == [t \in Ids |-> "absent"]
NoSearch == [task |-> 0, outcome |-> "none"]

\* ------------------------------------------------------------------ Init
BatchIdle ==
    /\ bpc = "idle" /\ btracks = <<>> /\ kwargs = {} /\ policy = NoPolicy
    /\ i = 0 /\ state = <<>> /\ attempts = <<>> /\ searches = <<>>
    /\ fetches = <<>> /\ events = <<>> /\ counts = NoCounts
    /\ search_results = NoSearch
    /\ download_results = NoResults /\ files = {} /\ cause = "none"
    /\ ydl_module = "unset" /\ search_cache = <<>>
    /\ last_call = NoCall /\ restarts = 0

CmdIdle(p) ==
    /\ pc = p /\ tracks = <<>> /\ lookup_mode = "none" /\ db_tracks = {}
    /\ file_infos = NoFileInfos /\ pos = 0 /\ results = <<>> /\ stats = NoStats

Init ==
    /\ CmdIdle("start")
    /\ BatchIdle
    /\ provider_answer = <<>>
    /\ cache_file = GoodFile(<<>>)

InitBatch ==
    /\ CmdIdle("none")
    /\ BatchIdle
    /\ provider_answer = <<>>
    /\ cache_file \in {GoodFile(Preload(K)) : K \in SUBSET Names}
                      \cup {CorruptFile}

\* ----------------------------------------------- the playlist command
\* cli.py:398-407, 588-593: the URL does not name a playlist, or
\* fetch_playlist raises.
RejectPlaylist ==
    /\ pc = "start"
    /\ pc' = "exit1"
    /\ UNCHANGED <<tracks, lookup_mode, db_tracks, file_infos, pos, results, stats>>
    /\ UNCHANGED <<bpc, cause, callVars, taskVars, provVars, callObs>>

\* cli.py:411-420
FetchPlaylist ==
    /\ pc = "start"
    /\ \E items \in SeqsUpTo(Ids \cup {NoId}, MaxTracks) :
         /\ tracks' = fetch_playlist(items)
         /\ pc' = IF tracks' = <<>> THEN "exit1" ELSE "fetched"
    /\ UNCHANGED <<lookup_mode, db_tracks, file_infos, pos, results, stats>>
    /\ UNCHANGED <<bpc, cause, callVars, taskVars, provVars, callObs>>

\* cli.py:422-435
LookupTracks ==
    /\ pc = "fetched"
    /\ \E mode \in DbModes, fmode \in FileModes :
         /\ lookup_mode' = mode
         /\ IF LookupRaises(mode) \/ fmode = "error"
            THEN /\ pc' = "exit1"
                 /\ UNCHANGED <<db_tracks, file_infos, pos, stats>>
            ELSE /\ pc' = "matching"
                 /\ db_tracks' \in LookupAnswers(mode, Range(track_ids))
                 /\ file_infos' \in FileInfoAnswers(fmode, Range(track_ids))
                 /\ pos' = 1
                 /\ stats' = [NoStats EXCEPT !.total = Len(tracks)]
    /\ UNCHANGED <<tracks, results>>
    /\ UNCHANGED <<bpc, cause, callVars, taskVars, provVars, callObs>>

\* cli.py:437-476, one iteration
ClassifyTrack ==
    /\ pc = "matching"
    /\ pos <= Len(tracks)
    /\ LET track_id == tracks[pos]
           status == Classify(track_id, db_tracks, file_infos)
       IN  IF track_id = NoId
           THEN UNCHANGED <<results, stats>>
           ELSE /\ results' = Append(results, [id |-> track_id, status |-> status])
                /\ stats' = StatsAfter(stats, status)
    /\ pos' = pos + 1
    /\ UNCHANGED <<pc, tracks, lookup_mode, db_tracks, file_infos>>
    /\ UNCHANGED <<bpc, cause, callVars, taskVars, provVars, callObs>>

\* cli.py:478-521: the loop is over; tracks and summary are shown
ShowSummary ==
    /\ pc = "matching"
    /\ pos > Len(tracks)
    /\ pc' = "reconciled"
    /\ UNCHANGED <<tracks, lookup_mode, db_tracks, file_infos, pos, results, stats>>
    /\ UNCHANGED <<bpc, cause, callVars, taskVars, provVars, callObs>>

\* What a caller sets up before the call (cli.py:541-552, 748-758), and the
\* call itself up to the first statement of download_tracks_batch
\* (youtube.py:286-306): the arguments are bound, or TypeError is raised.
Submit(ts, kw, pol, dir) ==
    /\ bpc = "idle"
    /\ bpc' = IF Binds(kw) THEN "loop" ELSE "raised"
    /\ cause' = IF Binds(kw) THEN cause ELSE "TypeError"
    /\ i' = IF Binds(kw) THEN 1 ELSE i
    /\ btracks' = ts
    /\ kwargs' = kw
    /\ policy' = pol
    /\ files' = dir
    /\ state' = Blank(Len(ts), "pending")
    /\ attempts' = Blank(Len(ts), 0)
    /\ searches' = Blank(Len(ts), 0)
    /\ fetches' = Blank(Len(ts), 0)
    /\ counts' = NoCounts
    /\ UNCHANGED <<events, search_results, download_results, provVars, callObs>>

\* cli.py:523-533: nothing to download
NoDownload ==
    /\ pc = "reconciled"
    /\ pc' = "exit0"
    /\ \E download \in BOOLEAN : ~download \/ tracks_to_download = <<>>
    /\ UNCHANGED <<tracks, lookup_mode, db_tracks, file_infos, pos, results, stats>>
    /\ UNCHANGED <<bpc, cause, callVars, taskVars, provVars, callObs>>

\* cli.py:523-593: --download with something to download.  The call of
\* download_tracks_batch (cli.py:570-578) is inside the command's try block:
\* an exception it raises is reported and the command exits with code 1.
DownloadStep ==
    /\ pc = "reconciled"
    /\ tracks_to_download # <<>>
    /\ \E pol \in Policies, dir \in OutputDirs :
         Submit(tracks_to_download, PlaylistKwargs, pol, dir)
    /\ pc' = IF bpc' = "raised" THEN "exit1" ELSE "downloading"
    /\ UNCHANGED <<tracks, lookup_mode, db_tracks, file_infos, pos, results, stats>>

\* ------------------------------------------- youtube.download_tracks_batch
\* A direct call: cli.py:771-776 passes the function's own parameters,
\* cli.py:570-578 adds the three policy keywords.
SubmitBatch ==
    /\ bpc = "idle"
    /\ \E ts \in SeqsUpTo(Ids, MaxTracks), dir \in OutputDirs :
         \/ Submit(ts, AlbumKwargs, NoPolicy, dir)
         \/ \E pol \in Policies : Submit(ts, PlaylistKwargs, pol, dir)
    /\ UNCHANGED cmdVars

Running == bpc = "loop" /\ i <= Len(btracks)

\* progress_callback(track_name, status, ...)
EmitTwice(status) ==
    /\ events' = Append(Append(events, <<i, status>>), <<i, status>>)
    /\ counts' = CountAfter(counts, status)
    /\ state' = [state EXCEPT ![i] = status]

Emit(status) ==
    /\ events' = Append(events, <<i, status>>)
    /\ counts' = CountAfter(counts, status)
    /\ state' = [state EXCEPT ![i] = status]

BeginTrackNoSearch ==
    /\ Running
    /\ state[i] = "pending"
    /\ Emit("downloading")
    /\ attempts' = [attempts EXCEPT ![i] = @ + 1]
    /\ UNCHANGED <<bpc, i, searches, fetches, search_results, download_results, cause>>
    /\ UNCHANGED <<cmdVars, callVars, provVars, callObs>>

\* youtube.py:308-314
BeginTrack ==
    /\ Running
    /\ state[i] = "pending"
    /\ Emit("searching")
    /\ attempts' = [attempts EXCEPT ![i] = @ + 1]
    /\ UNCHANGED <<bpc, i, searches, fetches, search_results, download_results, cause>>
    /\ UNCHANGED <<cmdVars, callVars, provVars, callObs>>

AfterSearchMoveOn(n) ==
    IF n = 0
    THEN /\ Emit("not_found")
         /\ download_results' = [download_results EXCEPT ![btracks[i]] = "None"]
         /\ i' = i + 1
    ELSE /\ Emit("downloading")
         /\ i' = i + 1
         /\ UNCHANGED download_results

\* youtube.py:322-340: what follows the search, given the candidates returned
AfterSearch(n) ==
    IF n = 0
    THEN /\ Emit("not_found")
         /\ download_results' = [download_results EXCEPT ![btracks[i]] = "None"]
         /\ i' = i + 1
    ELSE /\ Emit("downloading")
         /\ UNCHANGED <<download_results, i>>

\* youtube.py:316-340 with search_youtube:115-121: the query is in the cache
SearchCached ==
    /\ Running
    /\ state[i] = "searching"
    /\ LET cache == LoadCache(search_cache, cache_file)
       IN  /\ HasKey(cache, QueryKey(btracks[i]))
           /\ search_cache' = cache
    /\ search_results' = [task |-> i, outcome |-> "cached"]
    /\ AfterSearch(1)
    /\ UNCHANGED <<bpc, attempts, searches, fetches, cause, cache_file, ydl_module>>
    /\ UNCHANGED <<cmdVars, callVars, callObs>>

\* youtube.py:316-340 with search_youtube:123-181: the provider is asked
SearchProvider ==
    /\ Running
    /\ state[i] = "searching"
    /\ LET cache == LoadCache(search_cache, cache_file)
           key == QueryKey(btracks[i])
       IN  /\ ~HasKey(cache, key)
           /\ \E outcome \in SearchOutcomes, how \in SaveOutcomes :
                /\ IF Candidates(outcome) > 0
                   THEN /\ search_cache' = Put(cache, key, <<GoodEntry>>)
                        /\ cache_file' = SaveCache(search_cache', cache_file, how)
                   ELSE /\ search_cache' = cache
                        /\ cache_file' = cache_file
                /\ search_results' = [task |-> i, outcome |-> outcome]
                /\ AfterSearch(Candidates(outcome))
    /\ ydl_module' = "loaded"
    /\ searches' = [searches EXCEPT ![i] = @ + 1]
    /\ UNCHANGED <<bpc, attempts, fetches, cause>>
    /\ UNCHANGED <<cmdVars, callVars, callObs>>

\* search_youtube:123 with _get_ydl:22-34: yt-dlp cannot be imported
SearchImportError ==
    /\ Running
    /\ state[i] = "searching"
    /\ ydl_module = "unset"
    /\ LET cache == LoadCache(search_cache, cache_file)
       IN  /\ ~HasKey(cache, QueryKey(btracks[i]))
           /\ search_cache' = cache
    /\ bpc' = "raised"
    /\ cause' = "ImportError"
    /\ UNCHANGED <<cache_file, ydl_module, taskVars>>
    /\ UNCHANGED <<cmdVars, callVars, callObs>>

\* youtube.py:342-360 with download_track:208-283
FetchTrack ==
    /\ Running
    /\ state[i] = "downloading"
    /\ \E outcome \in FetchOutcomes :
         /\ outcome = "no_file" => FileName(btracks[i]) \notin files
         /\ IF FetchEscapes(outcome)
            THEN /\ bpc' = "raised"
                 /\ cause' = "fetch_error"
                 /\ UNCHANGED <<i, state, events, counts, download_results, files>>
            ELSE /\ download_results' =
                        [download_results EXCEPT ![btracks[i]] = FilePath(outcome)]
                 /\ Emit(IF FilePath(outcome) = "None" THEN "failed"
                         ELSE "completed")
                 /\ files' = IF outcome = "ok"
                             THEN files \cup {FileName(btracks[i])}
                             ELSE files
                 /\ i' = i + 1
                 /\ UNCHANGED <<bpc, cause>>
    /\ ydl_module' = "loaded"
    /\ fetches' = [fetches EXCEPT ![i] = @ + 1]
    /\ UNCHANGED <<attempts, searches, search_results, search_cache, cache_file>>
    /\ UNCHANGED <<cmdVars, btracks, kwargs, policy, callObs>>

\* download_track:208 with _get_ydl:22-34: yt-dlp cannot be imported
FetchImportError ==
    /\ Running
    /\ state[i] = "downloading"
    /\ ydl_module = "unset"
    /\ bpc' = "raised"
    /\ cause' = "ImportError"
    /\ UNCHANGED <<cmdVars, callVars, taskVars, provVars, callObs>>

\* youtube.py:362
ReturnBatch ==
    /\ bpc = "loop"
    /\ i > Len(btracks)
    /\ bpc' = "returned"
    /\ UNCHANGED <<cause, cmdVars, callVars, taskVars, provVars, callObs>>

\* ------------------------------------------------------- specifications
\* ----------------------------------- search_youtube, called directly
\* the limits the callers pass: youtube.py:321 and cli.py:617
Limits == {1, 5}
Queries == [text : Names, upper : BOOLEAN]

\* where _load_cache takes the cache of this call from
LoadedFrom ==
    IF search_cache # <<>> THEN "memory"
    ELSE IF ~cache_file.ok THEN "corrupt"
    ELSE IF cache_file.entries = <<>> THEN "nofile" ELSE "file"

Called(query, limit, use_cache, outcome, returned, provider, saved) ==
    [query |-> query, limit |-> limit, use_cache |-> use_cache,
     load |-> LoadedFrom, outcome |-> outcome, returned |-> returned,
     provider |-> provider, saved |-> saved]

\* youtube.py:97-181: one whole call of search_youtube
search_youtube(query, limit, use_cache, answers) ==
    LET cache == LoadCache(search_cache, cache_file)
        key == CacheKey(query)
    IN  IF LoadRaises(search_cache, cache_file)
        THEN /\ last_call' = Called(query, limit, use_cache, "load_error",
                                    <<>>, FALSE, "none")
             /\ UNCHANGED provVars
        ELSE IF use_cache /\ HasKey(cache, key)
        THEN /\ search_cache' = cache
             /\ last_call' = Called(query, limit, use_cache, "cached",
                                    Take(Get(cache, key), limit), FALSE, "none")
             /\ UNCHANGED <<cache_file, ydl_module>>
        ELSE \/ /\ ydl_module = "unset"
                /\ search_cache' = cache
                /\ last_call' = Called(query, limit, use_cache, "ImportError",
                                       <<>>, FALSE, "none")
                /\ UNCHANGED <<cache_file, ydl_module>>
             \/ /\ ydl_module' = "loaded"
                /\ search_cache' = cache
                /\ last_call' = Called(query, limit, use_cache, "error",
                                       <<>>, TRUE, "none")
                /\ UNCHANGED cache_file
             \/ /\ ydl_module' = "loaded"
                /\ \E found \in {Usable(raw, limit, <<>>) : raw \in answers} :
                     LET outcome == IF found = <<>> THEN "empty" ELSE "fresh"
                     IN  IF ShouldCache(found)
                         THEN \E how \in SaveOutcomes :
                                /\ search_cache' = Put(cache, key, found)
                                /\ cache_file' =
                                     SaveCache(search_cache', cache_file, how)
                                /\ last_call' =
                                     Called(query, limit, use_cache, outcome,
                                            Take(found, limit), TRUE, how)
                         ELSE /\ search_cache' = cache
                              /\ cache_file' = cache_file
                              /\ last_call' =
                                   Called(query, limit, use_cache, outcome,
                                          Take(found, limit), TRUE, "none")

\* cli.py:617 and youtube.py:321: no caller passes use_cache, it is True
CacheSearch ==
    /\ bpc = "idle"
    /\ \E query \in Queries, limit \in Limits :
         search_youtube(query, limit, TRUE, ProviderAnswers(limit))
    /\ UNCHANGED <<cmdVars, callVars, taskVars, bpc, cause, restarts,
                   provider_answer>>

\* A process whose cache file holds some entries searches one query after
\* the other, each new to the cache and each with one video as its answer.
Filled(n) ==
    [k \in 1..n |-> [key |-> [text |-> k, upper |-> FALSE],
                     cands |-> <<GoodEntry>>]]

FillSearch ==
    /\ bpc = "idle"
    /\ LET cache == LoadCache(search_cache, cache_file)
       IN  /\ Len(cache) < Len(cache_file.entries) + MaxFresh
           /\ search_youtube([text |-> Len(cache) + 1, upper |-> FALSE], 1,
                             TRUE, {<<GoodEntry>>})
    /\ UNCHANGED <<cmdVars, callVars, taskVars, bpc, cause, restarts,
                   provider_answer>>

\* A process searches while the provider keeps handing back the same
\* entries, whatever the query.
RankSearch ==
    /\ bpc = "idle"
    /\ \E query \in Queries, limit \in Limits :
         search_youtube(query, limit, TRUE, {provider_answer})
    /\ UNCHANGED <<cmdVars, callVars, taskVars, bpc, cause, restarts,
                   provider_answer>>

\* the process ends and another starts: youtube.py:15-18 run again
Restart ==
    /\ bpc = "idle"
    /\ restarts < MaxRestarts
    /\ restarts' = restarts + 1
    /\ search_cache' = <<>>
    /\ ydl_module' = "unset"
    /\ last_call' = NoCall
    /\ UNCHANGED <<cache_file, provider_answer>>
    /\ UNCHANGED <<cmdVars, callVars, taskVars, bpc, cause>>

Next ==
    \/ RejectPlaylist
    \/ FetchPlaylist
    \/ LookupTracks
    \/ ClassifyTrack
    \/ ShowSummary
    \/ NoDownload
    \/ DownloadStep

Spec == Init /\ [][Next]_vars

NextBatch ==
    \/ SubmitBatch
    \/ BeginTrack
    \/ SearchCached
    \/ SearchProvider
    \/ SearchImportError
    \/ FetchTrack
    \/ FetchImportError
    \/ ReturnBatch

SpecBatch == InitBatch /\ [][NextBatch]_vars

NextCache ==
    \/ CacheSearch
    \/ Restart

InitCache ==
    /\ CmdIdle("none")
    /\ BatchIdle
    /\ provider_answer = <<>>
    /\ cache_file \in {GoodFile(<<>>), CorruptFile}

SpecCache == InitCache /\ [][NextCache]_vars

InitFill ==
    /\ CmdIdle("none")
    /\ BatchIdle
    /\ provider_answer = <<>>
    /\ cache_file \in {GoodFile(Filled(n)) : n \in 0..CacheCap}

NextFill ==
    \/ FillSearch

SpecFill == InitFill /\ [][NextFill]_vars

InitRank ==
    /\ CmdIdle("none")
    /\ BatchIdle
    /\ cache_file = GoodFile(<<>>)
    /\ provider_answer \in RankAnswers

NextRank ==
    \/ RankSearch

SpecRank == InitRank /\ [][NextRank]_vars

TypeOK ==
    /\ pc \in {"none", "start", "fetched", "matching", "reconciled",
               "downloading", "exit0", "exit1"}
    /\ bpc \in {"idle", "called", "loop", "returned", "raised"}
    /\ Len(results) <= Len(tracks)
    /\ Len(state) = Len(btracks)
    /\ provider_answer \in RankAnswers

\* ------------------------------------------------------------- claims
Reconciled == pos > Len(tracks)
BatchOver == bpc \in {"returned", "raised"}
Tasks == 1..Len(btracks)
NumIn(S) == Cardinality({k \in Tasks : state[k] \in S})

\* C1: reconciliation yields one result per input track, in the input's
\* order, the k-th result carrying the id of the k-th track: while the loop
\* runs the results are those of the tracks already passed, and once it is
\* over there are as many results as tracks.
C1_OrderPreserved ==
    /\ pos > 0 => Len(results) = pos - 1
    /\ \A k \in 1..Len(results) : k <= Len(tracks) /\ results[k].id = tracks[k]
    /\ Reconciled => Len(results) = Len(tracks)

C1_Witness ==
    /\ pc = "reconciled"
    /\ Len(results) = 3
    /\ results[1].id = results[3].id
    /\ results[1].id # results[2].id

\* C2: after reconciliation available + missing + not_indexed equals total,
\* and total is the number of input tracks.
C2_SummaryAddsUp ==
    Reconciled =>
        /\ stats.available + stats.missing + stats.not_in_db = stats.total
        /\ stats.total = Len(tracks)

C2_Witness ==
    /\ pc = "reconciled"
    /\ stats.available = 1 /\ stats.missing = 1 /\ stats.not_in_db = 1

\* C3: every track is classified by the rules tried in this order: id absent
\* from the lookup result -> not indexed; file info with the success status
\* -> available; no file info at all -> available; otherwise -> missing.
\* For ids [1,2,3] with success info for 1, other info for 2 and no entry
\* for 3 the result is [available, missing, not indexed] and the summary is
\* {total 3, available 1, missing 1, not indexed 1}.
C3_Rule(id) ==
    IF id \notin db_tracks THEN "not_in_db"
    ELSE IF file_infos[id] = "success" THEN "available"
    ELSE IF file_infos[id] = "none" THEN "available"
    ELSE "missing"

C3_Example ==
    /\ tracks = <<1, 2, 3>>
    /\ db_tracks = {1, 2}
    /\ file_infos[1] = "success"
    /\ file_infos[2] = "other"
    /\ Reconciled

C3_Classification ==
    /\ \A k \in 1..Len(results) : results[k].status = C3_Rule(results[k].id)
    /\ C3_Example =>
          /\ results = << [id |-> 1, status |-> "available"],
                          [id |-> 2, status |-> "missing"],
                          [id |-> 3, status |-> "not_in_db"] >>
          /\ stats = [total |-> 3, available |-> 1, missing |-> 1, not_in_db |-> 1]

C3_Witness ==
    /\ C3_Example
    /\ pc = "reconciled"
    /\ file_infos[3] = "none"
    /\ results[3].status = "not_in_db"

\* C4: when the metadata lookup fails, no track is ever classified from it
\* and no summary is shown: the command does not get past the lookup.
C4_NoResultFromFailedLookup ==
    lookup_mode \in {"local_error", "remote_down", "no_libsql"} =>
        /\ results = <<>>
        /\ pc \notin {"reconciled", "downloading", "exit0"}

\* C5: when a batch of N distinct tracks run with a max_workers policy is
\* over, completed + skipped + failed = N.
C5_Conservation ==
    (BatchOver /\ "max_workers" \in kwargs
               /\ Cardinality(Range(btracks)) = Len(btracks)) =>
        counts.downloaded + counts.skipped + counts.failed = Len(btracks)

\* C6: when a batch run with a max_retries policy is over, every task that
\* was neither completed, skipped nor not found is failed after exactly
\* max_retries attempts.
C6_RetryExhaustion ==
    (BatchOver /\ "max_retries" \in kwargs) =>
        \A k \in Tasks :
            state[k] \notin {"completed", "skipped", "not_found"} =>
                state[k] = "failed" /\ attempts[k] = policy.max_retries

\* C7: when a batch run with skip_existing set is over, every task whose
\* output file existed is skipped, and no provider call was made for it.
\* (Stated for the playlist command, where the batch writes no file.)
C7_SkipExisting ==
    (BatchOver /\ "skip_existing" \in kwargs /\ policy.skip_existing) =>
        \A k \in Tasks :
            FileName(btracks[k]) \in files =>
                state[k] = "skipped" /\ searches[k] = 0 /\ fetches[k] = 0

\* C8: within one batch no two tasks of the same track id are both taken up,
\* both fetched, or both reported terminal.
C8_OneTaskPerId ==
    \A j \in Tasks, k \in Tasks :
        (j # k /\ btracks[j] = btracks[k]) =>
            /\ ~(state[j] # "pending" /\ state[k] # "pending")
            /\ ~(fetches[j] > 0 /\ fetches[k] > 0)
            /\ ~(state[j] \in Terminal /\ state[k] \in Terminal)

\* C9: a task whose provider search returns no usable candidate becomes
\* not_found; a not_found task is never fetched, is searched once, keeps its
\* state, and is counted as failed.  For tracks [2,3] with 2 found and
\* fetched and 3 without candidates the counts are {completed 1, skipped 0,
\* failed 1}.
C9_State ==
    /\ search_results.outcome = "empty" =>
          state[search_results.task] = "not_found"
    /\ \A k \in Tasks :
          state[k] = "not_found" => fetches[k] = 0 /\ searches[k] <= 1
    /\ counts.failed = NumIn({"failed", "not_found"})
    /\ (bpc = "returned" /\ btracks = <<2, 3>>
          /\ state = <<"completed", "not_found">>) =>
          counts = [downloaded |-> 1, skipped |-> 0, failed |-> 1]

C9_Step ==
    \A k \in Tasks :
        state[k] = "not_found" =>
            /\ state'[k] = "not_found"
            /\ searches'[k] = searches[k]
            /\ fetches'[k] = fetches[k]

C9_NotFoundTerminal == [](C9_State) /\ [][C9_Step]_vars

C9_Witness ==
    /\ bpc = "returned"
    /\ btracks = <<2, 3>>
    /\ state = <<"completed", "not_found">>
    /\ search_results = [task |-> 2, outcome |-> "empty"]
    /\ searches = <<1, 1>>
    /\ fetches = <<1, 0>>

IsCall == last_call'.outcome # "none"

\* C12: searching the same query twice with the same limit, the cache
\* enabled and within its cap and the first search non-empty, the second
\* call returns exactly the candidates of the first and does not ask the
\* provider.
C12_Step ==
    (/\ IsCall
     /\ last_call.outcome \in {"fresh", "cached"}
     /\ last_call.returned # <<>>
     /\ last_call'.query = last_call.query
     /\ last_call'.limit = last_call.limit
     /\ last_call'.use_cache
     /\ Len(search_cache) <= CacheCap)
    => /\ last_call'.outcome = "cached"
       /\ last_call'.returned = last_call.returned
       /\ ~last_call'.provider

C12_RepeatedSearchIsCached == [][C12_Step]_vars

C12_Witness ==
    /\ restarts = 0
    /\ last_call.outcome = "cached"
    /\ last_call.load = "memory"
    /\ last_call.limit = 1
    /\ Len(last_call.returned) = 1
    /\ \E n \in 1..Len(search_cache) :
         /\ search_cache[n].key = Lower(last_call.query)
         /\ Len(search_cache[n].cands) = 2

\* C13: two queries that differ only in letter case have the same cache
\* key: right after a successful non-empty search for one of them a search
\* for the other is a cache hit that returns the candidates stored by the
\* first, cut to its own limit.
C13_Step ==
    (/\ IsCall
     /\ last_call.outcome = "fresh"
     /\ last_call'.use_cache
     /\ last_call'.query # last_call.query
     /\ last_call'.query.text = last_call.query.text)
    => /\ last_call'.outcome = "cached"
       /\ ~last_call'.provider
       /\ search_cache' = search_cache
       /\ \E n \in 1..Len(search_cache) :
            /\ search_cache[n].key = Lower(last_call.query)
            /\ search_cache[n].key = Lower(last_call'.query)
            /\ last_call'.returned =
                 Take(search_cache[n].cands, last_call'.limit)

C13_CaseInsensitiveKey == [][C13_Step]_vars

C13_Witness ==
    /\ last_call.outcome = "cached"
    /\ last_call.query.upper
    /\ last_call.load = "memory"
    /\ Len(search_cache) = 1
    /\ search_cache[1].key = [text |-> last_call.query.text, upper |-> FALSE]
    /\ last_call.returned = search_cache[1].cands
    /\ Len(last_call.returned) = 2

\* C15: only a provider search that found a usable candidate populates the
\* cache.  A call that raises, or whose provider search fails or yields no
\* usable candidate, leaves the file as it was and the memory holding what
\* _load_cache gave; a call that changes either is a successful non-empty
\* provider search.
C15_Step ==
    IsCall =>
        /\ last_call'.outcome \in {"error", "empty", "ImportError"} =>
             /\ cache_file' = cache_file
             /\ search_cache' = LoadCache(search_cache, cache_file)
        /\ (\/ cache_file' # cache_file
            \/ search_cache' # LoadCache(search_cache, cache_file)) =>
             /\ last_call'.outcome = "fresh"
             /\ last_call'.provider
             /\ last_call'.returned # <<>>

C15_OnlySuccessPopulates == [][C15_Step]_vars

C15_Witness ==
    /\ last_call.outcome = "empty"
    /\ last_call.load = "file"
    /\ cache_file.ok
    /\ Len(search_cache) = 1
    /\ search_cache = cache_file.entries
    /\ search_cache[1].key # Lower(last_call.query)

C17_EveryInsertionDurable ==
    (last_call.outcome = "fresh" /\ Len(search_cache) <= CacheCap) =>
        cache_file = GoodFile(search_cache)

\* C17, amended: an insertion is flushed at once unless the write of the
\* file fails, which _save_cache swallows.  When the write succeeded the
\* file holds every entry of the memory (within the cap), and the first
\* lookup of a restarted process, which loads the file, is a hit for every
\* query of the file and returns its stored candidates cut to the limit.
C17_Flushed ==
    (last_call.saved = "written" /\ Len(search_cache) <= CacheCap) =>
        cache_file = GoodFile(search_cache)

C17_Step ==
    (/\ IsCall
     /\ last_call'.load = "file"
     /\ last_call'.use_cache
     /\ HasKey(cache_file.entries, Lower(last_call'.query)))
    => /\ last_call'.outcome = "cached"
       /\ ~last_call'.provider
       /\ \E n \in 1..Len(cache_file.entries) :
            /\ cache_file.entries[n].key = Lower(last_call'.query)
            /\ last_call'.returned =
                 Take(cache_file.entries[n].cands, last_call'.limit)

C17_DurableRoundTrip == [](C17_Flushed) /\ [][C17_Step]_vars

C17_Witness ==
    /\ restarts > 0
    /\ last_call.load = "file"
    /\ last_call.outcome = "cached"
    /\ Len(last_call.returned) = 2
    /\ Len(search_cache) = 2
    /\ cache_file = GoodFile(search_cache)

\* C14, as stated: the cache never holds more than 1000 entries.
C14_AtMostCap ==
    /\ Len(search_cache) <= CacheCap
    /\ Len(cache_file.entries) <= CacheCap

\* C14, amended: it is the cache file that never holds more than 1000
\* entries.  A write that succeeds leaves in it the newest entries of the
\* memory, all of them up to 1000 and the last 1000 beyond, in insertion
\* order, so that the oldest are the ones dropped; the memory of the
\* running process is not cut and holds the 1001st entry with the others.
C14_FileCapped ==
    /\ Len(cache_file.entries) <= CacheCap
    /\ last_call.saved = "written" =>
         LET kept == Len(cache_file.entries)
             held == Len(search_cache)
         IN  /\ cache_file.ok
             /\ kept = (IF held <= CacheCap THEN held ELSE CacheCap)
             /\ \A n \in 1..kept :
                  cache_file.entries[n] = search_cache[n + held - kept]
             /\ search_cache[held].key = Lower(last_call.query)

C14_Witness ==
    /\ last_call.saved = "written"
    /\ Len(search_cache) = CacheCap + 1
    /\ Len(cache_file.entries) = CacheCap
    /\ search_cache[1].key.text = 1
    /\ cache_file.entries[1].key.text = 2
    /\ cache_file.entries[CacheCap].key.text = CacheCap + 1

\* C11: a batch run called with the policy keywords of the playlist command
\* (output_dir, format, skip_existing, max_retries, max_workers) comes to
\* its end by returning, and then every submitted track is in a terminal
\* state and has its entry in the returned mapping.
C11_PolicyRunReturns ==
    (kwargs = PlaylistKwargs /\ bpc # "idle" /\ pc \in {"exit0", "exit1"}) =>
        /\ bpc = "returned"
        /\ \A k \in Tasks :
             /\ state[k] \in Terminal
             /\ download_results[btracks[k]] # "absent"

\* C18, as stated: no exception leaves download_track, whatever fails.
C18_FetchStep == (Running /\ state[i] = "downloading") => bpc' # "raised"

C18_Step ==
    (Running /\ state[i] = "downloading") =>
        IF fetches'[i] > fetches[i]
        THEN /\ bpc' = "loop"
             /\ cause' = cause
             /\ state'[i] \in {"completed", "failed"}
             /\ download_results'[btracks[i]] \in {"path", "None"}
             /\ state'[i] = "failed" <=> download_results'[btracks[i]] = "None"
        ELSE /\ bpc' = "raised"
             /\ cause' = "ImportError"
             /\ ydl_module = "unset"
             /\ state' = state

C19_ExitCodes ==
    /\ (pc \in {"exit0", "exit1"} /\ tracks = <<>>) => pc = "exit1"
    /\ (pc \in {"exit0", "exit1"} /\ tracks # <<>> /\ pos > Len(tracks)) =>
           pc = "exit0"

\* C20: the status of a track is a function of its id and of what the
\* lookups hold for that id (whether it is indexed, and the status of its
\* file row): two results of one run with the same id have the same status,
\* whatever stands between them, and every status is the one the table
\* gives for its own id alone.
C20_StatusOf(indexed, row) ==
    IF ~indexed THEN "not_in_db"
    ELSE IF row \in {"success", "none"} THEN "available" ELSE "missing"

C20_Deterministic ==
    /\ \A j, k \in 1..Len(results) :
         results[j].id = results[k].id => results[j].status = results[k].status
    /\ \A k \in 1..Len(results) :
         results[k].status = C20_StatusOf(results[k].id \in db_tracks,
                                          file_infos[results[k].id])

C20_Witness ==
    /\ pc = "reconciled"
    /\ Len(results) = 3
    /\ results[1].id = results[3].id
    /\ results[1].status = "not_in_db"
    /\ results[3].status = "not_in_db"
    /\ results[2].status = "missing"

\* C21: a task changes state only along pending -> searching,
\* searching -> not_found | downloading, downloading -> completed | failed,
\* pending -> skipped and failed -> searching; a task is downloading only
\* after its searching event, and a completed, skipped or not_found task
\* keeps its state.
C21_Edges ==
    {<<"pending", "searching">>, <<"searching", "not_found">>,
     <<"searching", "downloading">>, <<"downloading", "completed">>,
     <<"downloading", "failed">>, <<"pending", "skipped">>,
     <<"failed", "searching">>}

C21_State ==
    \A k \in Tasks :
        state[k] \in {"downloading", "completed", "failed"} =>
            \E m, n \in 1..Len(events) :
                /\ m < n
                /\ events[m] = <<k, "searching">>
                /\ events[n] = <<k, "downloading">>

C21_Step ==
    \A k \in Tasks :
        /\ state'[k] # state[k] => <<state[k], state'[k]>> \in C21_Edges
        /\ state[k] \in {"completed", "skipped", "not_found"} =>
               state'[k] = state[k]

C21_TaskTransitions == [](C21_State) /\ [][C21_Step]_vars

C21_Witness ==
    /\ bpc = "returned"
    /\ state = <<"completed", "failed", "not_found">>
    /\ events = << <<1, "searching">>, <<1, "downloading">>, <<1, "completed">>,
                   <<2, "searching">>, <<2, "downloading">>, <<2, "failed">>,
                   <<3, "searching">>, <<3, "not_found">> >>

\* C22: a task whose attempt failed is left by the loop only once it has
\* made as many attempts as the retry budget (the command's default of 3
\* where none is given); before that it goes back to searching.
C22_FailureOnlyAtBudget ==
    \A k \in Tasks :
        (state[k] = "failed" /\ k < i) => attempts[k] = DefaultRetries

\* C23: a task whose provider search failed with an error does not end
\* not_found.
C23_SearchErrorNotNotFound ==
    search_results.outcome = "error" =>
        state[search_results.task] # "not_found"

\* C24: every change of a task's state is reported by exactly one progress
\* event carrying the task and its new state, appended when the change is
\* made, and nothing else is reported; a task has one terminal event when it
\* is terminal and none before, so that every task of a returned run has
\* exactly one; the events of a task come before those of the next one.
C24_Count(k, S) ==
    Cardinality({m \in 1..Len(events) :
                    events[m][1] = k /\ events[m][2] \in S})

C24_State ==
    /\ \A k \in Tasks :
         C24_Count(k, Terminal) = IF state[k] \in Terminal THEN 1 ELSE 0
    /\ bpc = "returned" => \A k \in Tasks : C24_Count(k, Terminal) = 1
    /\ \A m, n \in 1..Len(events) : m < n => events[m][1] <= events[n][1]

C24_Step ==
    IF Len(state') = Len(state) /\ state' # state
    THEN \E k \in Tasks :
            /\ state' = [state EXCEPT ![k] = state'[k]]
            /\ events' = Append(events, <<k, state'[k]>>)
    ELSE events' = events

C25_Active == {"searching", "downloading"}

C25_State ==
    \A k \in Tasks :
        /\ state[k] \in C25_Active => k = i
        /\ (bpc = "loop" /\ k < i) => state[k] \in Terminal
        /\ k > i => state[k] = "pending"

C25_Step ==
    \A k \in Tasks :
        state[k] \in C25_Active => (i' = i \/ state'[k] \in Terminal)

C25_OneOwner == [](C25_State) /\ [][C25_Step]_vars

C25_Witness ==
    /\ bpc = "loop"
    /\ i = 2
    /\ state = <<"completed", "downloading", "pending">>

\* C26: the tasks that are searching or downloading are never more than
\* max_workers, for the value passed and for every value the command can
\* pass: there is at most one.
C26_WorkerBound ==
    /\ NumIn({"searching", "downloading"}) <= 1
    /\ \A pol \in Policies :
         NumIn({"searching", "downloading"}) <= pol.max_workers
    /\ "max_workers" \in kwargs =>
         NumIn({"searching", "downloading"}) <= policy.max_workers

C26_Witness ==
    /\ bpc = "loop"
    /\ Len(btracks) = 3
    /\ state = <<"failed", "searching", "pending">>
    /\ NumIn({"searching", "downloading"}) = 1

\* C27: after the first search of a process, a later search takes the cache
\* from memory: it does not open the cache file again.
C27_Step ==
    (last_call.outcome # "none" /\ IsCall) =>
        last_call'.load \in {"memory", "nofile"}

C27_FileReadOnce == [][C27_Step]_vars

\* C28: no candidate returned by a search, fresh or from the cache, and no
\* candidate kept in the cache is longer than 900 seconds; a fresh search
\* returns the first `limit` of the provider's entries that are videos of at
\* most 900 seconds, in the provider's order, and a cached one a prefix of
\* them.
C28_Ok(e) == e # NoEntry /\ Duration(e) <= 900

C28_Kept == SelectSeq(provider_answer, C28_Ok)

C28_IsPrefix(s, t) ==
    /\ Len(s) <= Len(t)
    /\ \A k \in 1..Len(s) : s[k] = t[k]

C28_ShortAndRanked ==
    /\ \A k \in 1..Len(last_call.returned) :
         Duration(last_call.returned[k]) <= 900
    /\ \A n \in 1..Len(search_cache) :
         \A k \in 1..Len(search_cache[n].cands) :
             Duration(search_cache[n].cands[k]) <= 900
    /\ last_call.outcome \in {"fresh", "empty"} =>
         last_call.returned = Take(C28_Kept, last_call.limit)
    /\ last_call.outcome = "cached" =>
         /\ last_call.returned # <<>>
         /\ Len(last_call.returned) <= last_call.limit
         /\ C28_IsPrefix(last_call.returned, C28_Kept)

C28_Witness ==
    /\ provider_answer = <<2, 3, 1>>
    /\ last_call.outcome = "cached"
    /\ last_call.limit = 5
    /\ last_call.returned = <<2, 1>>

\* C29: what the playlist command hands to download_tracks_batch is the
\* results whose status is missing or not_in_db, in the order of the
\* results; no id of an available result is handed over, and when no result
\* is missing or not_in_db the function is not called and yt-dlp is not
\* loaded.
C29_Wanted(r) == r.status = "missing" \/ r.status = "not_in_db"

C29_Needed == SelectSeq(results, C29_Wanted)

C29_SubmittedAreNeeded ==
    /\ bpc # "idle" =>
         /\ Reconciled
         /\ C29_Needed # <<>>
         /\ Len(btracks) = Len(C29_Needed)
         /\ \A k \in Tasks : btracks[k] = C29_Needed[k].id
         /\ \A k \in Tasks : \A n \in 1..Len(results) :
              results[n].id = btracks[k] => results[n].status # "available"
    /\ (pc \in {"exit0", "exit1"} /\ C29_Needed = <<>>) =>
         /\ bpc = "idle"
         /\ ydl_module = "unset"
         /\ events = <<>>

C29_Witness ==
    /\ pc = "exit1"
    /\ bpc = "raised"
    /\ Len(results) = 3
    /\ results[1].status = "missing"
    /\ results[2].status = "available"
    /\ results[3].status = "not_in_db"
    /\ btracks = <<results[1].id, results[3].id>>

\* C30: the step that ends a download reports completed only with the
\* output file in place and its path in the outcome mapping; it reports
\* failed with None in the mapping and no file written; a download that
\* leaves no file at the path is reported failed, never completed.
C30_Step ==
    (Running /\ state[i] = "downloading" /\ state'[i] # state[i]) =>
        /\ state'[i] \in {"completed", "failed"}
        /\ events' = Append(events, <<i, state'[i]>>)
        /\ state'[i] = "completed" =>
               /\ FileName(btracks[i]) \in files'
               /\ download_results'[btracks[i]] = "path"
        /\ state'[i] = "failed" =>
               /\ files' = files
               /\ download_results'[btracks[i]] = "None"
        /\ FileName(btracks[i]) \notin files' => state'[i] = "failed"

C30_CompletedHasFile == [][C30_Step]_vars

C30_Witness ==
    /\ bpc = "returned"
    /\ Len(btracks) = 2
    /\ state = <<"failed", "completed">>
    /\ FileName(btracks[1]) \notin files
    /\ FileName(btracks[2]) \in files
    /\ download_results[btracks[1]] = "None"
    /\ download_results[btracks[2]] = "path"

============================================================================
